---- MODULE Spec2Model ----
(***************************************************************************)
(* CodeShift: the history session of app/routes/layout.tsx (AppLayout),    *)
(* the conversion gateway of app/services/conversionService.ts with the    *)
(* server action of app/routes/converters/css.tsx, and the CssConverter    *)
(* component of the same file.                                             *)
(*                                                                         *)
(* Time is counted in days: Date.now() is the variable now, and            *)
(* THIRTY_DAYS_MS (30 * 24 * 60 * 60 * 1000 ms) is 30 of these units.      *)
(* Two reads of the clock between two ticks return the same value, as two  *)
(* reads of Date.now() within one millisecond do.                          *)
(***************************************************************************)
EXTENDS Integers, Sequences, FiniteSets, TLC

\* ------------------------------------------------------------------ bounds
MaxNow == 41          \* the clock stops advancing here
MaxId == 3            \* document ids the store can hand out
MaxEffectRuns == 2    \* runs of the auth & history effect in one session
MaxPending == 1       \* writes in flight at the same time
MaxInputLen == 1      \* characters of the submitted input
MaxResponses == 2     \* action responses one converter session receives
MaxAdds == 2          \* addDoc calls one converter session issues
MaxOver == 1          \* stored items beyond the limit of the history query

\* --------------------------------------------------------- program constants
THIRTY_DAYS_MS == 30
HISTORY_LIMIT == 50

NoUser == "null"
Uid == "u1"

VARIABLES
  \* the document store and the identity provider
  now, store, usedIds, settingsDoc, authUser,
  \* AppLayout: React state
  history, userId, status, keepForever,
  \* AppLayout: effects, listeners and requests in flight
  mounted, effectRuns, authListener, signInCalls, thenQueue, snaps,
  loadPc, loadVal, writes, batches, clearPc,
  \* AppLayout: what the operations did (read by the properties only)
  clearView, clearResult,
  \* the server action and runConversionTask: one request
  entry, inputCode, API_KEY, gpc, called, fetchCalls, reply, convertOut,
  actionData,
  \* CssConverter: React state, the fetcher, the outlet context, the addDoc calls
  cssInput, conversions, analysis, fetcherState, fetcherData, submitted,
  ctxUserId, historyItemToLoad, added

layoutVars == <<now, store, usedIds, settingsDoc, authUser, history, userId,
                status, keepForever, mounted, effectRuns, authListener,
                signInCalls, thenQueue, snaps, loadPc, loadVal, writes,
                batches, clearPc, clearView, clearResult>>

gatewayVars == <<entry, inputCode, API_KEY, gpc, called, fetchCalls, reply,
                 convertOut, actionData>>

converterVars == <<cssInput, conversions, analysis, fetcherState, fetcherData,
                   submitted, ctxUserId, historyItemToLoad, added>>

vars == <<layoutVars, gatewayVars, converterVars>>

\* what a step of one component leaves alone
notLayout == <<gatewayVars, converterVars>>
notGateway == <<layoutVars, converterVars>>
notConverter == <<layoutVars, gatewayVars>>

\* ----------------------------------------------------------------- helpers
IdsOf(items) == {i.id : i \in items}

Range(s) == {s[k] : k \in DOMAIN s}

\* the document that sorts first under orderBy("timestamp", "desc")
Newest(items) ==
  CHOOSE i \in items : \A j \in items :
    \/ j.timestamp < i.timestamp
    \/ (j.timestamp = i.timestamp /\ j.id <= i.id)

RECURSIVE OrderByTimestampDesc(_)
OrderByTimestampDesc(items) ==
  IF items = {} THEN <<>>
  ELSE <<Newest(items)>> \o OrderByTimestampDesc(items \ {Newest(items)})

NoLimit(s, n) == s
Limit(s, n) == IF Len(s) <= n THEN s ELSE SubSeq(s, 1, n)

\* query(collection, orderBy("timestamp","desc"), limit(50)) -> snap.docs
HistoryQuery(docs) == Limit(OrderByTimestampDesc(docs), HISTORY_LIMIT)

\* the age test of cleanupOldHistory's forEach
IsExpiredOrAtCutoff(item, cutoff) == item.timestamp <= cutoff
IsExpired(item, cutoff) == item.timestamp < cutoff

\* cleanupOldHistory(uid, currentHistory): the ids put in the write batch
RECURSIVE BatchDeletes(_, _, _)
BatchDeletes(currentHistory, cutoff, k) ==
  IF k > Len(currentHistory) THEN {}
  ELSE (IF IsExpired(currentHistory[k], cutoff) THEN {currentHistory[k].id} ELSE {})
       \cup BatchDeletes(currentHistory, cutoff, k + 1)

cleanupAllListed(kf, currentHistory, t) ==
  IF kf THEN {} ELSE BatchDeletes(currentHistory, t + 1, 1)
cleanupOldHistory(kf, currentHistory, t) ==
  IF kf THEN {} ELSE BatchDeletes(currentHistory, t - THIRTY_DAYS_MS, 1)

\* batch.commit() / deleteDoc: all of the deletes are applied, or none is
CommitOutcomesLoop(docs, ids) ==
  {[ok |-> TRUE, docs |-> {d \in docs : d.id \notin ids}]}
  \cup {[ok |-> FALSE, docs |-> {d \in docs : d.id \notin part}] : part \in SUBSET ids}
CommitOutcomesWholeCollection(docs, ids) ==
  {[ok |-> TRUE, docs |-> {}], [ok |-> FALSE, docs |-> docs]}
CommitOutcomes(docs, ids) ==
  {[ok |-> TRUE, docs |-> {d \in docs : d.id \notin ids}],
   [ok |-> FALSE, docs |-> docs]}

\* the writes in flight that the user started (deleteDoc, clearAllHistory)
UserWrites(bs) == {b \in bs : b.op # "sweep"}

\* what becomes of a write the store rejects: addDoc(...).catch(e =>
\* console.error(...)) logs it; the awaits of cleanupOldHistory,
\* deleteHistoryItem and clearAllHistory sit in no try block, and the promise
\* each of these async functions returns is dropped by its caller
OnRejected(op) == IF op = "append" THEN "logged" ELSE "unhandled"

RemoveAt(s, k) == SubSeq(s, 1, k - 1) \o SubSeq(s, k + 1, Len(s))

MarkDirty(ls) == [k \in DOMAIN ls |-> [ls[k] EXCEPT !.dirty = TRUE]]
MarkTorn(ls) == [k \in DOMAIN ls |-> [ls[k] EXCEPT !.torn = TRUE]]

\* ------------------------------------------------- conversionService.ts
\* JavaScript values: undefined is the string Undefined; !v holds of
\* undefined and of the empty string
Undefined == "undefined"
Falsy(v) == v \in {Undefined, ""}

\* the submitted input: a string of blanks and other characters
InputChars == {" ", "c"}
Inputs == UNION {[1..n -> InputChars] : n \in 0..MaxInputLen}
\* !inputCode
InputMissing(inp) == Len(inp) = 0
IsBlank(inp) == \A k \in DOMAIN inp : inp[k] = " "

\* Provider text, in tokens: F is a run of three backticks, J the letters
\* json, W white space, Q a double quote, X other letters; O is the text of
\* a JSON object with conversions and analysis, E the text {}, N the text
\* of a number, U the text null, A the text []
Wrap(open, p, close) == open \o p \o close
Payloads ==
  {<<"O">>, <<"E">>, <<"N">>, <<"U">>, <<"A">>, <<"Q", "X", "Q">>,
   <<"Q", "F", "Q">>, <<"X">>, <<"O", "X">>, <<>>}
Texts ==
  {Wrap(<<>>, p, <<>>) : p \in Payloads}
  \cup {Wrap(<<"F", "J", "W">>, p, <<"W", "F">>) : p \in Payloads}
  \cup {Wrap(<<"F", "W">>, p, <<"W", "F">>) : p \in Payloads}
  \cup {Wrap(<<"W">>, p, <<"W">>) : p \in Payloads}

\* text.replace(/```json/g, "")
RECURSIVE RemoveJsonFences(_)
RemoveJsonFences(t) ==
  IF t = <<>> THEN <<>>
  ELSE IF Len(t) >= 2 /\ t[1] = "F" /\ t[2] = "J"
    THEN RemoveJsonFences(SubSeq(t, 3, Len(t)))
    ELSE <<t[1]>> \o RemoveJsonFences(Tail(t))

\* .replace(/```/g, "")
IsNotFence(x) == x # "F"
RemoveFences(t) == SelectSeq(t, IsNotFence)

\* .trim()
RECURSIVE TrimStart(_)
TrimStart(t) == IF t # <<>> /\ t[1] = "W" THEN TrimStart(Tail(t)) ELSE t
RECURSIVE TrimEnd(_)
TrimEnd(t) ==
  IF t # <<>> /\ t[Len(t)] = "W" THEN TrimEnd(SubSeq(t, 1, Len(t) - 1)) ELSE t
Trim(t) == TrimEnd(TrimStart(t))

CleanText(t) == Trim(RemoveFences(RemoveJsonFences(t)))

\* JSON.parse(text): the value, or invalid
Invalid == [type |-> "invalid", content |-> <<>>]
IsStringLiteral(t) ==
  /\ Len(t) >= 2
  /\ t[1] = "Q" /\ t[Len(t)] = "Q"
  /\ \A k \in 2..(Len(t) - 1) : t[k] # "Q"
JSONParse(t) ==
  LET u == Trim(t)
  IN IF u = <<"O">> THEN [type |-> "object", content |-> <<"conversions", "analysis">>]
     ELSE IF u = <<"E">> THEN [type |-> "object", content |-> <<>>]
     ELSE IF u = <<"N">> THEN [type |-> "number", content |-> <<>>]
     ELSE IF u = <<"U">> THEN [type |-> "null", content |-> <<>>]
     ELSE IF u = <<"A">> THEN [type |-> "array", content |-> <<>>]
     ELSE IF IsStringLiteral(u)
       THEN [type |-> "string", content |-> SubSeq(u, 2, Len(u) - 1)]
     ELSE Invalid

\* the message of the SyntaxError JSON.parse throws: depending on the engine
\* it quotes nothing, or the text it was given (the cleaned text)
ParseErrors(cleaned) ==
  {[message |-> "Unexpected token", quoted |-> <<>>],
   [message |-> "Unexpected token", quoted |-> cleaned]}

\* what fetch and the provider can answer
HttpBodies ==
  {[form |-> "notjson", hasError |-> FALSE, errMessage |-> Undefined,
    errStatus |-> Undefined, hasText |-> FALSE, text |-> <<>>],
   [form |-> "object", hasError |-> FALSE, errMessage |-> Undefined,
    errStatus |-> Undefined, hasText |-> FALSE, text |-> <<>>]}
  \cup {[form |-> "object", hasError |-> TRUE, errMessage |-> m, errStatus |-> st,
         hasText |-> FALSE, text |-> <<>>] :
          m \in {Undefined, "", "X"}, st \in {Undefined, "RESOURCE_EXHAUSTED"}}
  \cup {[form |-> "object", hasError |-> FALSE, errMessage |-> Undefined,
         errStatus |-> Undefined, hasText |-> TRUE, text |-> t] : t \in Texts}
Replies ==
  {[net |-> TRUE, ok |-> FALSE, body |-> b] : b \in {CHOOSE b \in HttpBodies : b.form = "notjson"}}
  \cup {[net |-> FALSE, ok |-> o, body |-> b] : o \in BOOLEAN, b \in HttpBodies}
NoReply == [net |-> TRUE, ok |-> FALSE, body |-> CHOOSE b \in HttpBodies : b.form = "notjson"]

\* results and errors of runConversionTask
NoOut == [kind |-> "none", value |-> Invalid, prefix |-> "", message |-> "", quoted |-> <<>>]
Returned(v) == [kind |-> "value", value |-> v, prefix |-> "", message |-> "", quoted |-> <<>>]
Thrown(pre, msg, q) == [kind |-> "error", value |-> Invalid, prefix |-> pre, message |-> msg, quoted |-> q]

\* line 29: if (!API_KEY) throw ...
KeyMissingNever(key) == FALSE
KeyMissing(key) == Falsy(key)

\* where the request goes once fetch has settled: a single attempt
AfterReplyRetry(r) == IF r.net THEN "calling" ELSE "responded"
AfterReply(r) == "responded"

\* data.error?.message || data.error?.status || "API Error"
ErrorLabel(body) ==
  IF body.hasError /\ ~Falsy(body.errMessage) THEN body.errMessage
  ELSE IF body.hasError /\ ~Falsy(body.errStatus) THEN body.errStatus
  ELSE "API Error"

\* lines 47-54, the errors thrown inside the try block (before the catch wraps them)
TryBlock(r) ==
  IF r.net THEN {Thrown("", "fetch failed", <<>>)}
  ELSE IF r.body.form = "notjson"
    THEN {Thrown("", e.message, e.quoted) : e \in ParseErrors(<<"X">>)}
  ELSE IF ~r.ok THEN {Thrown("", ErrorLabel(r.body), <<>>)}
  ELSE LET raw == IF r.body.hasText /\ r.body.text # <<>> THEN r.body.text ELSE <<"E">>
           text == CleanText(raw)
       IN IF JSONParse(text) = Invalid
            THEN {Thrown("", e.message, e.quoted) : e \in ParseErrors(text)}
            ELSE {Returned(JSONParse(text))}

\* lines 56-58: catch (error) { throw new Error(`AI Service Failed: ${error.message}`) }
CatchWrap(o) ==
  IF o.kind = "error" THEN Thrown("AI Service Failed: ", o.message, o.quoted) ELSE o

\* css.tsx action, lines 22-27: return result, or { error: error.message }
ActionReturnNoCatch(o) ==
  [error |-> FALSE, prefix |-> "", message |-> "", value |-> o.value]
ActionReturn(o) ==
  IF o.kind = "error"
    THEN [error |-> TRUE, prefix |-> o.prefix, message |-> o.message, value |-> Invalid]
    ELSE [error |-> FALSE, prefix |-> "", message |-> "", value |-> o.value]
NoData == [error |-> FALSE, prefix |-> "", message |-> "none", value |-> Invalid]

\* ------------------------------------------------------------ CssConverter
\* what the action returns to the fetcher (fetcher.data): an error, an object
\* with conversions and analysis, the object {}, a number, null
ActionResults ==
  {ActionReturn(CatchWrap(Thrown("", "API Error", <<>>))),
   ActionReturn(Returned(JSONParse(<<"O">>))),
   ActionReturn(Returned(JSONParse(<<"E">>))),
   ActionReturn(Returned(JSONParse(<<"N">>))),
   ActionReturn(Returned(JSONParse(<<"U">>)))}

NoResponse == [id |-> 0, data |-> NoData]

\* history items of the sidebar: the stored output is the text of a JSON
\* array, text that is not JSON (a legacy record), or the text of a JSON object
NoItem == [id |-> 0, type |-> "", input |-> <<>>, output |-> ""]
SidebarItems ==
  {[id |-> 1, type |-> "css", input |-> <<"c">>, output |-> "array"],
   [id |-> 2, type |-> "css", input |-> <<"c", "c">>, output |-> "notjson"],
   [id |-> 3, type |-> "sql", input |-> <<" ">>, output |-> "array"],
   [id |-> 4, type |-> "css", input |-> <<>>, output |-> "object"]}

\* what the output pane shows: where the value came from, and its shape
Shown(src, id, shape) == [src |-> src, id |-> id, shape |-> shape]

\* fetcher.data is truthy, and its error / conversions fields are
DataTruthy(resp) ==
  resp.id # 0 /\ (resp.data.error \/ resp.data.value.type \notin {"null", "invalid"})
\* data.error is a non-empty string
DataHasError(resp) ==
  resp.data.error /\ ~(resp.data.prefix = "" /\ resp.data.message = "")
DataHasConversions(resp) ==
  /\ ~resp.data.error
  /\ resp.data.value.type = "object"
  /\ resp.data.value.content # <<>>

\* the action-response effect (css.tsx lines 60-81) run in a render with the
\* given cssInput: the new conversions, analysis and addDoc log
ResponseEffect(resp, uid, inp, cur) ==
  IF ~DataTruthy(resp) THEN cur
  ELSE IF DataHasError(resp)
    THEN [conversions |-> Shown("cleared", resp.id, "array"),
          analysis |-> Shown("error", resp.id, "text"),
          added |-> cur.added]
  ELSE IF DataHasConversions(resp)
    THEN [conversions |-> Shown("response", resp.id, "array"),
          analysis |-> Shown("response", resp.id, "text"),
          added |-> IF uid # NoUser
                      THEN Append(cur.added, [resp |-> resp.id, input |-> inp])
                      ELSE cur.added]
  ELSE cur

\* the catch of the history-load effect (css.tsx lines 52-55):
\* setConversions([{ error: "Could not parse history item." }]), an array of
\* one item whose only field is error; carried is what it holds of the stored
\* output
LegacyFallback(item) ==
  [src |-> "synthetic", id |-> item.id, shape |-> "array", length |-> 1,
   fields |-> {"error"}, carried |-> Undefined]

\* the history-load effect (css.tsx lines 45-57)
HistoryEffect(item, cur) ==
  IF item.id # 0 /\ item.type = "css"
    THEN [cssInput |-> item.input,
          analysis |-> Shown("history", item.id, "text"),
          conversions |-> IF item.output = "notjson"
                            THEN LegacyFallback(item)
                            ELSE Shown("history", item.id, item.output)]
    ELSE cur

Display == [conversions |-> conversions, analysis |-> analysis, added |-> added]

ConverterAtRest ==
  /\ cssInput = <<>>
  /\ conversions = Shown("init", 0, "array")
  /\ analysis = Shown("init", 0, "text")
  /\ fetcherState = "idle"
  /\ fetcherData = NoResponse
  /\ submitted = <<>>
  /\ ctxUserId = NoUser
  /\ historyItemToLoad = NoItem
  /\ added = <<>>

\* ------------------------------------------------------------------- Init
InitialItems == {[id |-> 1, timestamp |-> 0], [id |-> 2, timestamp |-> 10]}

InitLayout ==
  /\ now = THIRTY_DAYS_MS + 10
  /\ store \in {{}, InitialItems}
  /\ usedIds = IdsOf(InitialItems)
  /\ settingsDoc \in {[exists |-> FALSE, keepForever |-> FALSE],
                      [exists |-> TRUE, keepForever |-> FALSE],
                      [exists |-> TRUE, keepForever |-> TRUE]}
  /\ authUser = NoUser
  /\ history = <<>>
  /\ userId = NoUser
  /\ keepForever = FALSE
  \* after the first render: both effects have run once
  /\ status = "Attempting anonymous sign-in..."
  /\ mounted = TRUE
  /\ effectRuns = 1
  /\ authListener = [live |-> TRUE, kf |-> FALSE, notify |-> TRUE]
  /\ signInCalls = 1
  /\ thenQueue = 0
  /\ snaps = <<>>
  /\ loadPc = "none"
  /\ loadVal = [exists |-> FALSE, keepForever |-> FALSE]
  /\ writes = <<>>
  /\ batches = {}
  /\ clearPc = "idle"
  /\ clearView = {}
  /\ clearResult = "none"

\* ---------------------------------------------------------------- AppLayout
clearGhost == <<clearView, clearResult>>

\* the auth & history effect runs again: its cleanup (unsubscribeAuth), then
\* setStatus, signInAnonymously and a new onAuthStateChanged listener that
\* closes over the keepForever of this render
RerunAuthEffect(kf) ==
  /\ effectRuns' = effectRuns + 1
  /\ status' = "Attempting anonymous sign-in..."
  /\ signInCalls' = signInCalls + 1
  /\ authListener' = [live |-> TRUE, kf |-> kf, notify |-> TRUE]
  /\ snaps' = MarkTorn(snaps)

\* setKeepForever(v): a changed value re-renders and re-runs the effect
SetKeepForever(v) ==
  /\ keepForever' = v
  /\ IF v # keepForever
       THEN RerunAuthEffect(v)
       ELSE UNCHANGED <<effectRuns, status, signInCalls, authListener, snaps>>

\* the identity provider completes a signInAnonymously call
SignInResolve ==
  /\ signInCalls > 0
  /\ signInCalls' = signInCalls - 1
  /\ thenQueue' = thenQueue + 1
  /\ authUser' = Uid
  /\ authListener' = IF authUser = NoUser /\ authListener.live
                       THEN [authListener EXCEPT !.notify = TRUE]
                       ELSE authListener
  /\ UNCHANGED <<now, store, usedIds, settingsDoc, history, userId, status,
                 keepForever, mounted, effectRuns, snaps, loadPc, loadVal,
                 writes, batches, clearPc, clearGhost>>
  /\ UNCHANGED notLayout

\* .then(() => setStatus("Signed in. Fetching data..."))
SignInThen ==
  /\ thenQueue > 0
  /\ thenQueue' = thenQueue - 1
  /\ status' = IF mounted THEN "Signed in. Fetching data..." ELSE status
  /\ UNCHANGED <<now, store, usedIds, settingsDoc, authUser, history, userId,
                 keepForever, mounted, effectRuns, authListener, signInCalls,
                 snaps, loadPc, loadVal, writes, batches, clearPc, clearGhost>>
  /\ UNCHANGED notLayout

\* the sign-in calls still open once one of them was rejected: the catch
\* sets the status and calls nothing
CallsAfterRejectRetry(n) == n
CallsAfterReject(n) == n - 1

\* .catch((e) => setStatus(`Auth Error: ${e.code}`))
SignInReject ==
  /\ signInCalls > 0
  /\ signInCalls' = CallsAfterReject(signInCalls)
  /\ status' = IF mounted THEN "Auth Error" ELSE status
  /\ UNCHANGED <<now, store, usedIds, settingsDoc, authUser, history, userId,
                 keepForever, mounted, effectRuns, authListener, thenQueue,
                 snaps, loadPc, loadVal, writes, batches, clearPc, clearGhost>>
  /\ UNCHANGED notLayout

\* the onAuthStateChanged callback; what it returns (() => unsubscribeSnapshot())
\* goes to the auth library, which drops it
AuthCallback ==
  /\ authListener.live /\ authListener.notify
  /\ authListener' = [authListener EXCEPT !.notify = FALSE]
  /\ IF authUser # NoUser
       THEN /\ userId' = authUser
            /\ status' = ""
            /\ snaps' = Append(snaps, [kf |-> authListener.kf, dirty |-> TRUE,
                                       live |-> TRUE, torn |-> FALSE])
            \* the settings effect depends on [userId]
            /\ loadPc' = IF userId # authUser THEN "reading" ELSE loadPc
       ELSE UNCHANGED <<userId, status, snaps, loadPc>>
  /\ UNCHANGED <<now, store, usedIds, settingsDoc, authUser, history,
                 keepForever, mounted, effectRuns, signInCalls, thenQueue,
                 loadVal, writes, batches, clearPc,
                 clearGhost>>
  /\ UNCHANGED notLayout

\* the onSnapshot next-callback of listener k: setHistory, then the sweep;
\* keep records that the stored setting was keepForever=true, with no settings
\* write in flight, when the sweep was issued
SnapshotDeliver(k) ==
  /\ snaps[k].live /\ snaps[k].dirty
  /\ LET historyData == HistoryQuery(store)
         ids == IF Len(historyData) > 0
                  THEN cleanupOldHistory(snaps[k].kf, historyData, now)
                  ELSE {}
     IN /\ history' = IF mounted THEN historyData ELSE history
        /\ batches' = IF ids # {}
                        THEN batches \cup
                             {[op |-> "sweep", ids |-> ids,
                               keep |-> settingsDoc.exists /\ settingsDoc.keepForever
                                        /\ writes = <<>>]}
                        ELSE batches
  /\ snaps' = [snaps EXCEPT ![k].dirty = FALSE]
  /\ UNCHANGED <<now, store, usedIds, settingsDoc, authUser, userId, status,
                 keepForever, mounted, effectRuns, authListener, signInCalls,
                 thenQueue, loadPc, loadVal, writes, clearPc,
                 clearGhost>>
  /\ UNCHANGED notLayout

\* the onSnapshot error-callback of listener k: the listener ends, and is
\* no longer among the open listeners
SnapshotError(k) ==
  /\ snaps[k].live
  /\ snaps' = RemoveAt(snaps, k)
  /\ status' = IF mounted THEN "Database Error" ELSE status
  /\ UNCHANGED <<now, store, usedIds, settingsDoc, authUser, history, userId,
                 keepForever, mounted, effectRuns, authListener, signInCalls,
                 thenQueue, loadPc, loadVal, writes, batches, clearPc, clearGhost>>
  /\ UNCHANGED notLayout

\* the store settles a write batch (a sweep, a deleteDoc or clearAllHistory's)
CommitBatch(b) ==
  /\ b \in batches
  /\ batches' = batches \ {b}
  /\ \E out \in CommitOutcomes(store, b.ids) :
       /\ store' = out.docs
       /\ snaps' = IF out.docs # store THEN MarkDirty(snaps) ELSE snaps
       /\ IF b.op = "clearAll"
            THEN /\ clearPc' = "idle"
                 /\ clearResult' = IF out.ok THEN "ok" ELSE "failed"
                 /\ UNCHANGED clearView
            ELSE UNCHANGED <<clearPc, clearGhost>>
  /\ UNCHANGED <<now, usedIds, settingsDoc, authUser, history, userId, status,
                 keepForever, mounted, effectRuns, authListener, signInCalls,
                 thenQueue, loadPc, loadVal, writes>>
  /\ UNCHANGED notLayout

\* deleteHistoryItem(e, itemId), confirmed by the user: deleteDoc
DeleteHistoryItem(itemId) ==
  /\ mounted /\ userId # NoUser
  /\ itemId \in IdsOf(Range(history))
  /\ Cardinality(UserWrites(batches)) < MaxPending
  /\ batches' = batches \cup {[op |-> "deleteOne", ids |-> {itemId}, keep |-> FALSE]}
  /\ UNCHANGED <<now, store, usedIds, settingsDoc, authUser, history, userId,
                 status, keepForever, mounted, effectRuns, authListener,
                 signInCalls, thenQueue, snaps, loadPc, loadVal, writes,
                 clearPc, clearGhost>>
  /\ UNCHANGED notLayout

\* clearAllHistory, confirmed by the user, up to its await getDocs(q);
\* clearView: the listed items that the store holds at this moment
ClearAllHistory ==
  /\ mounted /\ userId # NoUser
  /\ clearPc = "idle"
  /\ clearPc' = "reading"
  /\ clearView' = IdsOf(Range(history)) \cap IdsOf(store)
  /\ clearResult' = "none"
  /\ UNCHANGED <<now, store, usedIds, settingsDoc, authUser, history, userId,
                 status, keepForever, mounted, effectRuns, authListener,
                 signInCalls, thenQueue, snaps, loadPc, loadVal, writes,
                 batches>>
  /\ UNCHANGED notLayout

\* getDocs(q) answers with the whole collection; snap.forEach(batch.delete);
\* batch.commit() is then in flight
ClearAllRead ==
  /\ clearPc = "reading"
  /\ clearPc' = "committing"
  /\ batches' = batches \cup {[op |-> "clearAll", ids |-> IdsOf(store), keep |-> FALSE]}
  /\ UNCHANGED <<now, store, usedIds, settingsDoc, authUser, history, userId,
                 status, keepForever, mounted, effectRuns, authListener,
                 signInCalls, thenQueue, snaps, loadPc, loadVal, writes, clearGhost>>
  /\ UNCHANGED notLayout

\* toggleKeepHistory: setKeepForever(!keepForever), then setDoc in flight
ToggleKeepHistory ==
  /\ mounted /\ userId # NoUser
  /\ effectRuns < MaxEffectRuns
  /\ Len(writes) < MaxPending
  /\ SetKeepForever(~keepForever)
  /\ writes' = Append(writes, ~keepForever)
  /\ UNCHANGED <<now, store, usedIds, settingsDoc, authUser, history, userId,
                 mounted, thenQueue, loadPc, loadVal, batches, clearPc, clearGhost>>
  /\ UNCHANGED notLayout

\* the store settles the oldest setDoc(settings/general, {keepForever}, {merge})
SetDocSettle ==
  /\ writes # <<>>
  /\ writes' = Tail(writes)
  /\ \/ settingsDoc' = [exists |-> TRUE, keepForever |-> Head(writes)]
     \/ UNCHANGED settingsDoc
  /\ UNCHANGED <<now, store, usedIds, authUser, history, userId, status,
                 keepForever, mounted, effectRuns, authListener, signInCalls,
                 thenQueue, snaps, loadPc, loadVal, batches, clearPc, clearGhost>>
  /\ UNCHANGED notLayout

\* loadSettings: the store answers getDoc(settings/general)
LoadSettingsRead ==
  /\ loadPc = "reading"
  /\ loadPc' = "got"
  /\ loadVal' = settingsDoc
  /\ UNCHANGED <<now, store, usedIds, settingsDoc, authUser, history, userId,
                 status, keepForever, mounted, effectRuns, authListener,
                 signInCalls, thenQueue, snaps, writes, batches, clearPc, clearGhost>>
  /\ UNCHANGED notLayout

\* loadSettings after its await: if (docSnap.exists()) setKeepForever(...)
LoadSettingsApply ==
  /\ loadPc = "got"
  /\ loadPc' = "done"
  /\ IF mounted /\ loadVal.exists
       THEN /\ loadVal.keepForever # keepForever => effectRuns < MaxEffectRuns
            /\ SetKeepForever(loadVal.keepForever)
       ELSE UNCHANGED <<keepForever, effectRuns, status, signInCalls,
                        authListener, snaps>>
  /\ UNCHANGED <<now, store, usedIds, settingsDoc, authUser, history, userId,
                 mounted, thenQueue, loadVal, writes, batches, clearPc, clearGhost>>
  /\ UNCHANGED notLayout

\* addDoc(collection(db, `users/${userId}/conversions`), {..., timestamp: Date.now()})
\* issued by the converter route; the store names the new document with an
\* id it has not used before, in no particular order
AddDoc(newId) ==
  /\ mounted /\ userId # NoUser
  /\ newId \notin usedIds
  /\ store' = store \cup {[id |-> newId, timestamp |-> now]}
  /\ usedIds' = usedIds \cup {newId}
  /\ snaps' = MarkDirty(snaps)
  /\ UNCHANGED <<now, settingsDoc, authUser, history, userId, status,
                 keepForever, mounted, effectRuns, authListener, signInCalls,
                 thenQueue, loadPc, loadVal, writes, batches, clearPc, clearGhost>>
  /\ UNCHANGED notLayout

\* a day passes
Tick ==
  /\ now < MaxNow
  /\ now' = now + 1
  /\ UNCHANGED <<store, usedIds, settingsDoc, authUser, history, userId, status,
                 keepForever, mounted, effectRuns, authListener, signInCalls,
                 thenQueue, snaps, loadPc, loadVal, writes, batches, clearPc, clearGhost>>
  /\ UNCHANGED notLayout

\* AppLayout unmounts: the effect's cleanup, () => unsubscribeAuth()
Unmount ==
  /\ mounted
  /\ mounted' = FALSE
  /\ authListener' = [authListener EXCEPT !.live = FALSE, !.notify = FALSE]
  /\ snaps' = MarkTorn(snaps)
  /\ UNCHANGED <<now, store, usedIds, settingsDoc, authUser, history, userId,
                 status, keepForever, effectRuns, signInCalls, thenQueue,
                 loadPc, loadVal, writes, batches, clearPc, clearGhost>>
  /\ UNCHANGED notLayout

\* the session: sign-in, the listeners, the settings and the sweeps they start
Next ==
  \/ SignInResolve
  \/ SignInThen
  \/ SignInReject
  \/ AuthCallback
  \/ \E k \in DOMAIN snaps : Cardinality(batches) < MaxPending /\ SnapshotDeliver(k)
  \/ \E k \in DOMAIN snaps : SnapshotError(k)
  \/ \E b \in batches : CommitBatch(b)
  \/ ToggleKeepHistory
  \/ SetDocSettle
  \/ LoadSettingsRead
  \/ LoadSettingsApply
  \/ Unmount

GatewayAtRest ==
  /\ entry = "action"
  /\ inputCode = <<>>
  /\ API_KEY = Undefined
  /\ gpc = "start"
  /\ called = FALSE
  /\ fetchCalls = 0
  /\ reply = NoReply
  /\ convertOut = NoOut
  /\ actionData = NoData

Init == InitLayout /\ GatewayAtRest /\ ConverterAtRest

Spec == Init /\ [][Next]_vars

\* the identity provider ends the user's sign-in (the account is deleted, its
\* token revoked) once the sign-in calls have settled; the auth listener will
\* be called with null
AuthStateLost ==
  /\ authUser # NoUser
  /\ signInCalls = 0
  /\ authUser' = NoUser
  /\ authListener' = IF authListener.live
                       THEN [authListener EXCEPT !.notify = TRUE]
                       ELSE authListener
  /\ UNCHANGED <<now, store, usedIds, settingsDoc, history, userId, status,
                 keepForever, mounted, effectRuns, signInCalls, thenQueue,
                 snaps, loadPc, loadVal, writes, batches, clearPc, clearGhost>>
  /\ UNCHANGED notLayout

\* the session under an identity provider that can end the sign-in
NextIdentity ==
  \/ SignInResolve
  \/ SignInThen
  \/ SignInReject
  \/ AuthCallback
  \/ AuthStateLost
  \/ \E k \in DOMAIN snaps : Cardinality(batches) < MaxPending /\ SnapshotDeliver(k)
  \/ \E k \in DOMAIN snaps : SnapshotError(k)
  \/ \E b \in batches : CommitBatch(b)
  \/ LoadSettingsRead
  \/ Unmount

SpecIdentity == Init /\ [][NextIdentity]_vars

\* a subscribed session: signed in, settings loaded, one snapshot listener open
SessionSubscribed ==
  /\ now = THIRTY_DAYS_MS + 10
  /\ settingsDoc \in {[exists |-> FALSE, keepForever |-> FALSE],
                      [exists |-> TRUE, keepForever |-> TRUE]}
  /\ authUser = Uid
  /\ history = <<>>
  /\ userId = Uid
  /\ keepForever = settingsDoc.keepForever
  /\ status = ""
  /\ mounted = TRUE
  /\ effectRuns = IF keepForever THEN 2 ELSE 1
  /\ authListener = [live |-> TRUE, kf |-> keepForever, notify |-> FALSE]
  /\ signInCalls = 0
  /\ thenQueue = 0
  /\ snaps = <<[kf |-> keepForever, dirty |-> TRUE, live |-> TRUE, torn |-> FALSE]>>
  /\ loadPc = "done"
  /\ loadVal = settingsDoc
  /\ writes = <<>>
  /\ batches = {}
  /\ clearPc = "idle"
  /\ clearView = {}
  /\ clearResult = "none"

InitSubscribed ==
  /\ store \in SUBSET InitialItems
  \* the user's earlier documents were the initial items, or only those left
  /\ usedIds \in {IdsOf(InitialItems), IdsOf(store)}
  /\ SessionSubscribed

\* the history store under a subscribed session
NextStore ==
  \/ \E k \in DOMAIN snaps : Cardinality(batches) < MaxPending /\ SnapshotDeliver(k)
  \/ \E b \in batches : CommitBatch(b)
  \/ \E itemId \in 1..MaxId :
       Cardinality(batches) < MaxPending /\ DeleteHistoryItem(itemId)
  \/ ClearAllHistory
  \/ ClearAllRead
  \* here the store hands out the unused ids in sequence
  \/ \E newId \in {Cardinality(usedIds) + 1} : newId <= MaxId /\ AddDoc(newId)
  \/ Tick

InitStore ==
  /\ InitSubscribed
  /\ usedIds = IdsOf(InitialItems)
  /\ GatewayAtRest
  /\ ConverterAtRest

SpecStore == InitStore /\ [][NextStore]_vars

\* appends, deletes and retention sweeps of a subscribed session, with any
\* number of sweeps in flight
InitSweep ==
  /\ InitSubscribed
  /\ usedIds = IdsOf(store)
  /\ GatewayAtRest
  /\ ConverterAtRest

NextSweep ==
  \/ \E k \in DOMAIN snaps : SnapshotDeliver(k)
  \/ \E b \in batches : CommitBatch(b)
  \/ \E itemId \in 1..MaxId : DeleteHistoryItem(itemId)
  \/ \E newId \in 1..MaxId : AddDoc(newId)
  \/ Tick

SpecSweep == InitSweep /\ [][NextSweep]_vars

\* a long history: the two initial items and n - 2 later ones, written on
\* five different days
LongHistory(n) ==
  InitialItems \cup {[id |-> i, timestamp |-> 20 + (i % 5)] : i \in 3..n}

\* a subscribed session of a user whose history is about as long as the page
\* of the history query
InitPage ==
  /\ \E n \in (HISTORY_LIMIT - 1)..(HISTORY_LIMIT + MaxOver) :
       /\ store = LongHistory(n)
       /\ usedIds = 1..n
  /\ SessionSubscribed
  /\ GatewayAtRest
  /\ ConverterAtRest

NextPage ==
  \/ \E k \in DOMAIN snaps : Cardinality(batches) < MaxPending /\ SnapshotDeliver(k)
  \/ \E b \in batches : CommitBatch(b)
  \/ \E itemId \in 1..MaxId :
       Cardinality(batches) < MaxPending /\ DeleteHistoryItem(itemId)
  \/ \E newId \in {HISTORY_LIMIT + MaxOver + 1} : AddDoc(newId)

SpecPage == InitPage /\ [][NextPage]_vars

\* ------------------------------------------ the server action and the gateway
\* css.tsx action, lines 16-23: formData.get("inputCode"), the !inputCode guard
ActionStart ==
  /\ gpc = "start" /\ entry = "action"
  /\ IF InputMissing(inputCode)
       THEN /\ actionData' = [error |-> TRUE, prefix |-> "",
                              message |-> "No input provided", value |-> Invalid]
            /\ gpc' = "done"
       ELSE /\ gpc' = "run"
            /\ UNCHANGED actionData
  /\ UNCHANGED <<entry, inputCode, API_KEY, called, fetchCalls, reply, convertOut>>
  /\ UNCHANGED notGateway

\* a caller other than the action invokes runConversionTask(inputCode, config)
DirectCall ==
  /\ gpc = "start" /\ entry = "direct"
  /\ gpc' = "run"
  /\ UNCHANGED <<entry, inputCode, API_KEY, called, fetchCalls, reply,
                 convertOut, actionData>>
  /\ UNCHANGED notGateway

\* runConversionTask, lines 24-33: the API key check, then into the try block
RunConversionTask ==
  /\ gpc = "run"
  /\ called' = TRUE
  /\ IF KeyMissing(API_KEY)
       THEN /\ convertOut' = Thrown("", "Server API Key missing.", <<>>)
            /\ gpc' = "settled"
       ELSE /\ gpc' = "calling"
            /\ UNCHANGED convertOut
  /\ UNCHANGED <<entry, inputCode, API_KEY, fetchCalls, reply, actionData>>
  /\ UNCHANGED notGateway

\* lines 34-45: fetch(...) is issued
IssueFetch ==
  /\ gpc = "calling"
  /\ fetchCalls' = fetchCalls + 1
  /\ gpc' = "awaiting"
  /\ UNCHANGED <<entry, inputCode, API_KEY, called, reply, convertOut, actionData>>
  /\ UNCHANGED notGateway

\* the fetch settles: a network failure or an HTTP response
FetchSettles(r) ==
  /\ gpc = "awaiting"
  /\ reply' = r
  /\ gpc' = AfterReply(r)
  /\ UNCHANGED <<entry, inputCode, API_KEY, called, fetchCalls, convertOut, actionData>>
  /\ UNCHANGED notGateway

\* lines 47-58: response.json(), the ok test, cleaning, JSON.parse, the catch
HandleReply ==
  /\ gpc = "responded"
  /\ \E o \in TryBlock(reply) : convertOut' = CatchWrap(o)
  /\ gpc' = "settled"
  /\ UNCHANGED <<entry, inputCode, API_KEY, called, fetchCalls, reply, actionData>>
  /\ UNCHANGED notGateway

\* runConversionTask has settled: the action returns (css.tsx lines 23-27)
Return ==
  /\ gpc = "settled"
  /\ gpc' = "done"
  /\ actionData' = IF entry = "action" THEN ActionReturn(convertOut) ELSE actionData
  /\ UNCHANGED <<entry, inputCode, API_KEY, called, fetchCalls, reply, convertOut>>
  /\ UNCHANGED notGateway

InitGateway ==
  /\ InitLayout
  /\ store = InitialItems
  /\ ~settingsDoc.exists
  /\ entry \in {"action", "direct"}
  /\ inputCode \in Inputs
  /\ API_KEY \in {Undefined, "", "key"}
  /\ gpc = "start"
  /\ called = FALSE
  /\ fetchCalls = 0
  /\ reply = NoReply
  /\ convertOut = NoOut
  /\ actionData = NoData
  /\ ConverterAtRest

NextGateway ==
  \/ ActionStart
  \/ DirectCall
  \/ RunConversionTask
  \/ IssueFetch
  \/ \E r \in Replies : FetchSettles(r)
  \/ HandleReply
  \/ Return

SpecGateway == InitGateway /\ [][NextGateway]_vars

\* ------------------------------------------------- CssConverter: the steps
\* the textarea's onChange: setCssInput; the action-response effect depends
\* on cssInput and runs again
EditInput(v) ==
  /\ Len(added) < MaxAdds
  /\ v # cssInput
  /\ cssInput' = v
  /\ LET out == ResponseEffect(fetcherData, ctxUserId, v, Display)
     IN /\ conversions' = out.conversions
        /\ analysis' = out.analysis
        /\ added' = out.added
  /\ UNCHANGED <<fetcherState, fetcherData, submitted, ctxUserId, historyItemToLoad>>
  /\ UNCHANGED notConverter

\* const isLoading = fetcher.state === "submitting"
isLoadingNever(state) == FALSE
isLoading(state) == state = "submitting"

\* the submit button, disabled={isLoading || !cssInput}
SubmitDisabled == isLoading(fetcherState) \/ cssInput = <<>>

\* a click on the submit button: the fetcher posts the form to the action;
\* submitted holds the inputs of the requests the action has not answered
SubmitForm ==
  /\ ~SubmitDisabled
  /\ fetcherData.id + Len(submitted) < MaxResponses
  /\ fetcherState' = "submitting"
  /\ submitted' = Append(submitted, cssInput)
  /\ UNCHANGED <<cssInput, conversions, analysis, fetcherData, ctxUserId,
                 historyItemToLoad, added>>
  /\ UNCHANGED notConverter

\* the action returns: fetcher.data is a new object, the effect runs
ActionReturns(d) ==
  /\ Len(added) < MaxAdds
  /\ fetcherState = "submitting"
  /\ submitted # <<>>
  /\ submitted' = Tail(submitted)
  /\ fetcherState' = IF Len(submitted) = 1 THEN "loading" ELSE "submitting"
  /\ fetcherData' = [id |-> fetcherData.id + 1, data |-> d]
  /\ LET out == ResponseEffect(fetcherData', ctxUserId, cssInput, Display)
     IN /\ conversions' = out.conversions
        /\ analysis' = out.analysis
        /\ added' = out.added
  /\ UNCHANGED <<cssInput, ctxUserId, historyItemToLoad>>
  /\ UNCHANGED notConverter

\* the fetcher's revalidation ends
FetcherIdle ==
  /\ fetcherState = "loading"
  /\ fetcherState' = "idle"
  /\ UNCHANGED <<cssInput, conversions, analysis, fetcherData, submitted,
                 ctxUserId, historyItemToLoad, added>>
  /\ UNCHANGED notConverter

\* the layout's userId arrives through the outlet context; the effect
\* depends on userId and runs again
UserIdArrives ==
  /\ Len(added) < MaxAdds
  /\ ctxUserId = NoUser
  /\ ctxUserId' = Uid
  /\ LET out == ResponseEffect(fetcherData, Uid, cssInput, Display)
     IN /\ conversions' = out.conversions
        /\ analysis' = out.analysis
        /\ added' = out.added
  /\ UNCHANGED <<cssInput, fetcherState, fetcherData, submitted, historyItemToLoad>>
  /\ UNCHANGED notConverter

\* a click on a sidebar item: setHistoryItemToLoad(item); the history-load
\* effect runs, and the action-response effect after it when cssInput changed
HistoryClick(item) ==
  /\ Len(added) < MaxAdds
  /\ item # historyItemToLoad
  /\ historyItemToLoad' = item
  /\ LET cur == [cssInput |-> cssInput, analysis |-> analysis,
                 conversions |-> conversions]
         loaded == HistoryEffect(item, cur)
         out == IF loaded.cssInput # cssInput
                  THEN ResponseEffect(fetcherData, ctxUserId, loaded.cssInput,
                                      [conversions |-> loaded.conversions,
                                       analysis |-> loaded.analysis,
                                       added |-> added])
                  ELSE [conversions |-> loaded.conversions,
                        analysis |-> loaded.analysis, added |-> added]
     IN /\ cssInput' = loaded.cssInput
        /\ conversions' = out.conversions
        /\ analysis' = out.analysis
        /\ added' = out.added
  /\ UNCHANGED <<fetcherState, fetcherData, submitted, ctxUserId>>
  /\ UNCHANGED notConverter

InitConverter ==
  /\ InitLayout
  /\ store = InitialItems
  /\ ~settingsDoc.exists
  /\ GatewayAtRest
  /\ ConverterAtRest

NextConverter ==
  \/ \E v \in Inputs : EditInput(v)
  \/ SubmitForm
  \/ \E d \in ActionResults : ActionReturns(d)
  \/ FetcherIdle
  \/ UserIdArrives
  \/ \E item \in SidebarItems : HistoryClick(item)

SpecConverter == InitConverter /\ [][NextConverter]_vars

\* ------------------------------------------------------------- properties
\* the step in which listener k delivers a snapshot
DeliverStep(k) ==
  /\ Len(snaps') = Len(snaps)
  /\ snaps[k].dirty /\ ~snaps'[k].dirty

\* the step in which the store settles batch b
SettleStep(b) == b \in batches /\ batches' = batches \ {b}

\* the step in which clearAllHistory's batch.commit() settles
ClearSettles == clearPc = "committing" /\ clearPc' = "idle"

\* C1: with the stored setting keepForever=true, no retention sweep deletes
\* a history item: a sweep issued while the stored setting was true (and no
\* settings write was in flight) removes nothing
C1_KeepForeverNeverSwept ==
  [][\A b \in batches :
       (SettleStep(b) /\ b.op = "sweep" /\ b.keep) => store' = store]_vars

\* C2: a sweep with keepForever=false at time now deletes exactly the listed
\* items with timestamp < now - 30 days, in one batch that is applied as a
\* whole or not at all, and keeps every other item; with keepForever=true it
\* deletes nothing
C2_SweepDeletesExactlyExpired ==
  [][/\ \A k \in DOMAIN snaps : DeliverStep(k) =>
          LET listed == Range(HistoryQuery(store))
              old == {i \in listed : i.timestamp + THIRTY_DAYS_MS < now}
          IN /\ snaps[k].kf => batches' = batches
             /\ old = {} => batches' = batches
             /\ (~snaps[k].kf /\ old # {}) =>
                  \E b \in batches' : b.op = "sweep" /\ b.ids = IdsOf(old)
             /\ \A b \in batches' \ batches : b.op = "sweep" /\ b.ids = IdsOf(old)
     /\ \A b \in batches : (SettleStep(b) /\ b.op = "sweep") =>
          \/ store' = store
          \/ store' = {d \in store : d.id \notin b.ids}]_vars

\* C2 witness: a sweep that deletes item 1 is in flight while the listed
\* history holds an item exactly at the cutoff, which the sweep left alone
C2_Witness ==
  /\ \E b \in batches : b.op = "sweep" /\ b.ids = {1}
  /\ \E k \in DOMAIN history : history[k].timestamp = now - THIRTY_DAYS_MS

\* runConversionTask has settled after one fetch that got an HTTP response
GotResponse ==
  gpc \in {"settled", "done"} /\ fetchCalls = 1 /\ ~reply.net

\* the label the claim C9 names for an error body
ClaimedLabel(body) ==
  IF body.form = "object" /\ body.hasError /\ body.errMessage \notin {Undefined, ""}
    THEN body.errMessage
  ELSE IF body.form = "object" /\ body.hasError /\ body.errStatus \notin {Undefined, ""}
    THEN body.errStatus
  ELSE "API Error"

\* C4: after the auth & history effect is torn down, the snapshot listener it
\* opened delivers nothing further
C4_TornListenerIsSilent ==
  [][\A k \in DOMAIN snaps : snaps[k].torn => ~DeliverStep(k)]_vars

\* C5 as stated: when clearAllHistory settles, every item of the view it was
\* invoked on is gone, or every one of them is still there
C5_AllOrNothingOfView ==
  [][ClearSettles =>
       \/ clearView \cap IdsOf(store') = {}
       \/ clearView \subseteq IdsOf(store')]_vars

\* C5 amended: when clearAllHistory settles, either its commit succeeded and
\* every item of the view it was invoked on is gone, or its commit failed and
\* removed nothing (what is missing was removed by the interleaved operation)
C5_CommitIsAllOrNothing ==
  [][ClearSettles =>
       \/ clearResult' = "ok" /\ clearView \cap IdsOf(store') = {}
       \/ clearResult' = "failed" /\ store' = store]_vars

\* C5 witness: clearAllHistory's commit failed, and exactly a part of the view
\* it was invoked on is gone, removed by a deleteDoc or a sweep
C5_Witness ==
  /\ clearResult = "failed"
  /\ clearView \cap IdsOf(store) # {}
  /\ ~(clearView \subseteq IdsOf(store))

\* C6: with a credential configured, the action given an empty or
\* whitespace-only input fails with the empty-input error and issues no
\* provider request
C6_BlankInputRejectedWithoutCall ==
  (gpc = "done" /\ entry = "action" /\ ~Falsy(API_KEY) /\ IsBlank(inputCode)) =>
    /\ fetchCalls = 0
    /\ actionData.error /\ actionData.message = "No input provided"

\* C7 as stated: for every non-empty input, a call of runConversionTask
\* issues exactly one provider request and leaves the history store alone
C7_ExactlyOneRequest ==
  (gpc = "done" /\ called /\ inputCode # <<>>) =>
    fetchCalls = 1 /\ store = InitialItems

\* C7 amended: for every non-empty input, a call of runConversionTask issues
\* exactly one provider request when a credential is configured and none
\* when it is not, never more than one, and leaves the history store alone
C7_OneRequestIfConfigured ==
  inputCode # <<>> =>
    /\ fetchCalls <= 1
    /\ store = InitialItems
    /\ (gpc = "done" /\ called) => fetchCalls = (IF Falsy(API_KEY) THEN 0 ELSE 1)

\* C7 witness: a call with a non-empty input whose one request failed on the
\* network, and that was not tried again
C7_Witness ==
  gpc = "done" /\ called /\ inputCode # <<>> /\ fetchCalls = 1 /\ reply.net

\* C8: with no credential configured, runConversionTask fails with the
\* configuration error and no provider request is ever issued, for every input
C8_NoKeyNoRequest ==
  Falsy(API_KEY) =>
    /\ fetchCalls = 0
    /\ called => convertOut = Thrown("", "Server API Key missing.", <<>>)

\* C8 witness: a direct call with the empty input and no credential has failed
C8_Witness ==
  gpc = "done" /\ called /\ Falsy(API_KEY) /\ entry = "direct" /\ inputCode = <<>>

\* C9: after a non-2xx response, runConversionTask has failed and the error
\* carries the provider's error.message, else its error.status, else the
\* generic label
C9_ProviderErrorCarriesLabel ==
  (GotResponse /\ ~reply.ok) =>
    convertOut.kind = "error" /\ convertOut.message = ClaimedLabel(reply.body)

\* C10: when the provider's text is not valid JSON after fence stripping,
\* runConversionTask fails with an error that holds the original provider text
C10_MalformedErrorWrapsText ==
  (/\ GotResponse /\ reply.ok
   /\ reply.body.form = "object" /\ reply.body.hasText /\ reply.body.text # <<>>
   /\ JSONParse(CleanText(reply.body.text)) = Invalid) =>
    convertOut.kind = "error" /\ convertOut.quoted = reply.body.text

\* the provider returned text t with status 2xx, and runConversionTask settled
ProviderText(t) ==
  /\ GotResponse /\ reply.ok
  /\ reply.body.form = "object" /\ reply.body.hasText /\ reply.body.text = t

\* the payloads that are JSON texts, and those of them that are not objects
JsonPayloads == {p \in Payloads : JSONParse(p) # Invalid}
NonObjectPayloads == {p \in JsonPayloads : JSONParse(p).type # "object"}

\* C11: when the provider's text parses as JSON that is not an object (a
\* number, a string, null, an array), runConversionTask fails instead of
\* returning that value
C11_NonObjectIsRejected ==
  \A p \in NonObjectPayloads : ProviderText(p) => convertOut.kind = "error"

\* a payload inside a json-tagged opening fence and a closing fence
Fenced(p) == Wrap(<<"F", "J", "W">>, p, <<"W", "F">>)

\* C12: for every JSON payload p, runConversionTask returns the value of p
\* both when the provider sends p inside a json-tagged fence and when it
\* sends p unfenced (stripping an unfenced payload changes nothing), and
\* stripping twice parses to the same value as stripping once
C12_FenceStrippingTransparent ==
  /\ \A p \in JsonPayloads :
       (ProviderText(Fenced(p)) \/ ProviderText(p)) =>
         convertOut = Returned(JSONParse(p))
  /\ \A t \in Texts :
       ProviderText(t) =>
         JSONParse(CleanText(CleanText(t))) = JSONParse(CleanText(t))

\* the step in which the user clicks a history item of the sidebar
ClickStep == historyItemToLoad' # historyItemToLoad

\* a step the user takes in the converter: a click on a history item, an
\* edit of the input, a submit
UserStep ==
  \/ ClickStep
  \/ cssInput' # cssInput
  \/ fetcherState' = "submitting" /\ fetcherState # "submitting"

\* the converter shows the history item it was last given
ReplayShown ==
  /\ historyItemToLoad.id # 0
  /\ cssInput = historyItemToLoad.input
  /\ conversions = Shown("history", historyItemToLoad.id, historyItemToLoad.output)
  /\ analysis = Shown("history", historyItemToLoad.id, "text")

\* C13: a click on a history item of type css whose output parses makes the
\* converter show that item's input, parsed output and analysis, also when
\* the fetcher still holds an earlier response; and what is shown stays
\* until the next user action (steps that bring a new response aside)
C13_ReplayShowsItem ==
  [][/\ (/\ ClickStep
         /\ historyItemToLoad'.type = "css"
         /\ historyItemToLoad'.output # "notjson") => ReplayShown'
     /\ (ReplayShown /\ ~UserStep /\ fetcherData' = fetcherData) => ReplayShown']_vars

\* the step in which the error-callback of snapshot listener k runs: the
\* listener is gone from the open listeners
ErrorStep == Len(snaps') = Len(snaps) - 1

\* C14: when a snapshot listener of the mounted layout reports an error, the
\* visible history becomes empty and a status message is set
C14_LostSubscriptionClearsHistory ==
  [][(ErrorStep /\ mounted) => (history' = <<>> /\ status' # "")]_vars

\* C15: a click on a css history item whose stored output is not valid JSON
\* does not throw, and sets the displayed conversions to exactly one synthetic
\* item that is flagged as unparseable and carries the stored output
C15_LegacyItemCarriesRawValue ==
  [][(/\ ClickStep
      /\ historyItemToLoad'.type = "css"
      /\ historyItemToLoad'.output = "notjson"
      /\ fetcherData = NoResponse) =>
       /\ conversions'.src = "synthetic"
       /\ conversions'.id = historyItemToLoad'.id
       /\ conversions'.length = 1
       /\ "error" \in conversions'.fields
       /\ conversions'.carried = historyItemToLoad'.output]_vars

\* the step in which the converter's addDoc reaches the store, and the
\* document it adds
AppendStep == usedIds' # usedIds
Appended == CHOOSE d \in store' : d \notin store

\* C17: right after an append, a fresh delivery of the history query has the
\* appended item at its head, whatever the history held before
C17_AppendedItemAtHead ==
  [][AppendStep => HistoryQuery(store')[1] = Appended]_vars

\* C19: retention sweeps that run over the same or overlapping snapshots, or
\* next to an append or a deleteDoc, are safe: a sweep's commit removes only
\* items of its own snapshot that are older than the cutoff, so never an item
\* appended meanwhile; it is applied as a whole or not at all; and ids that
\* are already deleted do not make it fail (its successful outcome exists
\* whatever the store still holds)
C19_SweepSafeUnderConcurrency ==
  [][\A b \in batches : (SettleStep(b) /\ b.op = "sweep") =>
       /\ \A d \in store \ store' :
            d.id \in b.ids /\ d.timestamp + THIRTY_DAYS_MS < now
       /\ \A d \in store' : d \in store
       /\ store' \in {store, {d \in store : d.id \notin b.ids}}
       /\ [ok |-> TRUE, docs |-> {d \in store : d.id \notin b.ids}]
            \in CommitOutcomes(store, b.ids)]_vars

\* C19 witness: two sweeps over overlapping snapshots are in flight at once,
\* one of them naming an id that is already deleted, next to an item that was
\* appended after the first of them was issued
C19_Witness ==
  /\ \E b1 \in batches : \E b2 \in batches :
       /\ b1 # b2 /\ b1.op = "sweep" /\ b2.op = "sweep"
       /\ b1.ids \cap b2.ids # {}
       /\ ~(b2.ids \subseteq IdsOf(store))
  /\ \E d \in store : d.timestamp = now

\* the smaller of two numbers
Min(a, b) == IF a <= b THEN a ELSE b

\* C16: every snapshot delivery sets the visible history to the full current
\* page of the store at that moment: no item twice, timestamps in
\* non-increasing order, min(number of stored items, 50) items, and no item
\* left out has a larger timestamp than a listed one
C16_DeliveryIsNewestPage ==
  [][\A k \in DOMAIN snaps : (DeliverStep(k) /\ mounted) =>
       /\ Range(history') \subseteq store
       /\ Len(history') = Min(Cardinality(store), HISTORY_LIMIT)
       /\ Cardinality(Range(history')) = Len(history')
       /\ \A i \in 1..(Len(history') - 1) :
            history'[i].timestamp >= history'[i + 1].timestamp
       /\ \A d \in store \ Range(history') : \A i \in DOMAIN history' :
            d.timestamp <= history'[i].timestamp]_vars

\* C16 witness: a delivered page of exactly 50 items, in which two
\* neighbours have the same timestamp, while the store holds more than 50
C16_Witness ==
  /\ Len(history) = HISTORY_LIMIT
  /\ Cardinality(store) > HISTORY_LIMIT
  /\ Range(history) \subseteq store
  /\ \E i \in 1..(Len(history) - 1) : history[i].timestamp = history[i + 1].timestamp

\* an item older than now - 30 days
Expired(d) == d.timestamp + THIRTY_DAYS_MS < now

\* C18: with keepForever=false, a delivery puts every stored item that is
\* older than now - 30 days into the retention sweep it starts, however many
\* items the user has stored
C18_EveryExpiredItemIsSwept ==
  [][\A k \in DOMAIN snaps : (DeliverStep(k) /\ ~snaps[k].kf) =>
       \A d \in store : Expired(d) =>
         \E b \in batches' : b.op = "sweep" /\ d.id \in b.ids]_vars

\* C20: while a conversion request is outstanding the submit control is
\* disabled, so at most one request is in flight, and the appends of a
\* session are issued in the order of its conversions: each for a response
\* that has arrived, none for an earlier response after one for a later
C20_OneConversionAtATime ==
  /\ Len(submitted) <= 1
  /\ submitted # <<>> => SubmitDisabled
  /\ \A k \in DOMAIN added : added[k].resp <= fetcherData.id
  /\ \A k \in DOMAIN added : \A l \in DOMAIN added :
       k < l => added[k].resp <= added[l].resp

\* C20 witness: the second conversion of a session is in flight, with the
\* submit control disabled, after the first was answered and appended
C20_Witness ==
  /\ Len(submitted) = 1
  /\ cssInput # <<>>
  /\ fetcherData.id = 1
  /\ Len(added) = 1 /\ added[1].resp = 1

\* the action has returned after runConversionTask failed
ConvertFailed == gpc = "done" /\ entry = "action" /\ convertOut.kind = "error"

\* what the action-response effect sets when the fetcher receives the data
\* the action returned, for a user and an input of the render
ShownFor(uid, inp) ==
  ResponseEffect([id |-> 1, data |-> actionData], uid, inp, Display)

\* C21: whenever runConversionTask fails (no credential, a network or
\* provider error, a malformed response), the action returns an error value
\* with the error's message, and the converter given that value shows it as
\* an error in the analysis pane, shows no conversions and stores nothing
C21_GatewayErrorIsShown ==
  ConvertFailed =>
    /\ actionData.error
    /\ actionData.prefix = convertOut.prefix
    /\ actionData.message = convertOut.message
    /\ \A uid \in {NoUser, Uid} : \A inp \in Inputs :
         /\ ShownFor(uid, inp).analysis = Shown("error", 1, "text")
         /\ ShownFor(uid, inp).conversions = Shown("cleared", 1, "array")
         /\ ShownFor(uid, inp).added = added

\* C21 witness: the action has returned the error of a malformed response
\* (a 2xx reply whose text is not JSON)
C21_Witness ==
  /\ ConvertFailed
  /\ ~reply.net /\ reply.ok /\ reply.body.hasText
  /\ JSONParse(CleanText(reply.body.text)) = Invalid
  /\ actionData.prefix = "AI Service Failed: "

\* the step in which the store rejects batch b: it settles, names a stored
\* item, and the store is as before
RejectStep(b) ==
  SettleStep(b) /\ b.ids \cap IdsOf(store) # {} /\ store' = store

\* C22: when the store rejects a history write (a sweep, a deleteDoc, the
\* batch of clearAllHistory), the displayed conversions and analysis stay as
\* they are and the rejection is caught and logged, not left to propagate
C22_WriteFailureIsSwallowed ==
  [][\A b \in batches : RejectStep(b) =>
       /\ conversions' = conversions
       /\ analysis' = analysis
       /\ OnRejected(b.op) = "logged"]_vars

\* the session shows the sign-in error and has no user
AuthError == status = "Auth Error" /\ userId = NoUser

\* C23: a rejected signInAnonymously sets the status to the auth error; in a
\* session that has no user yet, no sign-in call is open or issued from then
\* on, the status, the empty history and the absence of a user stay, and no
\* snapshot listener is opened; the session's user is always the one the
\* identity provider supplied
C23_AuthFailureIsFinal ==
  [][/\ (signInCalls' < signInCalls /\ thenQueue' = thenQueue /\ mounted) =>
          status' = "Auth Error"
     /\ AuthError =>
          /\ signInCalls = 0 /\ signInCalls' = 0
          /\ authUser = NoUser /\ authUser' = NoUser
          /\ snaps = <<>> /\ snaps' = <<>>
          /\ history' = <<>>
          /\ AuthError'
     /\ userId' # NoUser => userId' = authUser']_vars

\* C23 witness: the sign-in was rejected after the auth listener had reported
\* that there is no user; the layout is mounted and shows the error
C23_Witness ==
  AuthError /\ mounted /\ ~authListener.notify /\ signInCalls = 0

\* the auth listener of the mounted layout has reported the current auth state
AuthReported == mounted /\ authListener.live /\ ~authListener.notify

\* C24: the visible history holds only items of the session's current user
\* (every stored item here belongs to the one user the provider supplied),
\* also once the auth listener has reported that the user is gone
C24_HistoryOwnedByCurrentUser ==
  AuthReported => \A i \in DOMAIN history : authUser = Uid

\* C25: a stored item never changes (the document of an id that stays has
\* the same fields after every step, and an added document has a new id and
\* the time of its creation), and an item leaves the store only in the step
\* in which a deleteDoc, the batch of clearAllHistory or a retention sweep
\* that names it settles
C25_ItemsImmutableUntilDeleted ==
  [][/\ \A d \in store : \A e \in store' : e.id = d.id => e = d
     /\ \A e \in store' \ store : e.id \notin IdsOf(store) /\ e.timestamp = now
     /\ \A d \in store \ store' :
          \E b \in batches :
            /\ SettleStep(b)
            /\ b.op \in {"deleteOne", "clearAll", "sweep"}
            /\ d.id \in b.ids]_vars

\* C25 witness: clearAllHistory has removed the items it read, and an item
\* appended meanwhile or later is stored
C25_Witness ==
  /\ clearResult = "ok" /\ clearView # {}
  /\ \E d \in store : d.id \notin IdsOf(InitialItems)

\* the persisted setting: keepForever of settings/general, false without it
PersistedKeepForever == settingsDoc.exists /\ settingsDoc.keepForever

\* loadSettings has completed and no settings write is in flight
SettingsSettled == mounted /\ loadPc = "done" /\ writes = <<>>

\* C26: once loadSettings has completed and every settings write has
\* settled, the local keepForever flag equals the persisted setting
C26_LocalFlagAgreesWithPersisted ==
  SettingsSettled => keepForever = PersistedKeepForever

\* the step in which the action's answer to a request reaches the fetcher
ResponseStep == fetcherData'.id = fetcherData.id + 1

\* C27: when the answer to a conversion request arrives, the output pane
\* shows that request: its conversions and analysis, or its error with no
\* conversions; never what was shown before
C27_DisplayReflectsRequest ==
  [][ResponseStep =>
       /\ conversions'.id = fetcherData'.id
       /\ analysis'.id = fetcherData'.id
       /\ \/ conversions'.src = "response" /\ analysis'.src = "response"
          \/ conversions'.src = "cleared" /\ analysis'.src = "error"]_vars

\* C28: the input of every addDoc is the input that was submitted with the
\* request whose response it stores: an addDoc issued when the response
\* arrives carries the submitted input, and all addDocs for one response
\* carry the same input, whatever the user edits or loads meanwhile
C28_StoredInputIsSubmittedInput ==
  [][/\ ResponseStep =>
          \A k \in DOMAIN added' :
            added'[k].resp = fetcherData'.id => added'[k].input = Head(submitted)
     /\ \A k \in DOMAIN added' : \A l \in DOMAIN added' :
          added'[k].resp = added'[l].resp => added'[k].input = added'[l].input]_vars

\* C29: the displayed conversions value is a list in every state, also
\* after a click on a history item whose stored output is JSON that is not
\* an array
C29_ConversionsIsAList ==
  conversions.shape = "array"

\* sign-in has succeeded and has settled, and a snapshot listener is open
SubscribedAndSettled ==
  /\ mounted /\ userId # NoUser /\ snaps # <<>>
  /\ signInCalls = 0 /\ thenQueue = 0
  /\ authListener.live /\ ~authListener.notify

\* C30: once sign-in has succeeded and settled and the history subscription
\* is open, the status is empty or the text of an error that occurred since;
\* no progress message remains, in either order of the sign-in's resolution
\* and the auth listener's callback
C30_NoStaleProgressMessage ==
  SubscribedAndSettled => status \in {"", "Auth Error", "Database Error"}

\* the addDoc calls issued for action response r
AddsFor(r) == {k \in DOMAIN added : added[k].resp = r}

\* C3: each action response that carries conversions creates at most one
\* history item, whatever else happens afterwards
C3_OneItemPerConversion ==
  \A r \in 1..MaxResponses : Cardinality(AddsFor(r)) <= 1

====
